---- MODULE Spec2Model ----
(***************************************************************************)
(* Model of solar_financial_model.py: one run of the script, from the      *)
(* sidebar inputs through the capital structure, the per-year cash-flow    *)
(* loop, discounting, the summary metrics, the summary text and the cash   *)
(* flow table.                                                             *)
(*                                                                         *)
(* Numbers.  The script computes in Python floats.  The model computes in  *)
(* exact rationals <<numerator, denominator>> kept in lowest terms with a  *)
(* positive denominator, so every statement below is about the script's    *)
(* arithmetic without floating-point rounding error.  Money and energy are *)
(* scale free in the script, so the inputs are small numbers.              *)
(*                                                                         *)
(* Python's None is the pair <<0, 0>> for a number (no rational has a zero *)
(* denominator) and NoIndex for an index.                                  *)
(***************************************************************************)
EXTENDS Integers, Sequences, FiniteSets, TLC

----------------------------------------------------------------------------
(* Exact rational arithmetic *)

Abs(n) == IF n < 0 THEN -n ELSE n

RECURSIVE Gcd(_, _)
Gcd(a, b) == IF b = 0 THEN a ELSE Gcd(b, a % b)

\* The rational n/d (d # 0) in lowest terms with a positive denominator.
FracValues(n, d) ==
    LET g == Gcd(Abs(n), Abs(d))
        s == IF d < 0 THEN -1 ELSE 1
    IN  <<s * (n \div g), s * (d \div g)>>

Frac(n, d) == CHOOSE r \in {FracValues(x, y) : x \in {n}, y \in {d}} : TRUE

R(n) == <<n, 1>>
Zero == <<0, 1>>
One == <<1, 1>>
None == <<0, 0>>

RNeg(a) == <<-a[1], a[2]>>

\* The operands of + and * are evaluated before the operation (as Python does),
\* by binding them as the elements of singleton sets; this also keeps TLC's
\* evaluation of a long chain of operations shallow.
AddValues(a, b) ==
    LET g == Gcd(a[2], b[2])
    IN  Frac(a[1] * (b[2] \div g) + b[1] * (a[2] \div g), (a[2] \div g) * b[2])

RAdd(a, b) == CHOOSE r \in {AddValues(x, y) : x \in {a}, y \in {b}} : TRUE

RSub(a, b) == RAdd(a, RNeg(b))

MulValues(a, b) ==
    LET g1 == Gcd(Abs(a[1]), b[2])
        g2 == Gcd(Abs(b[1]), a[2])
    IN  Frac((a[1] \div g1) * (b[1] \div g2), (a[2] \div g2) * (b[2] \div g1))

RMul(a, b) == CHOOSE r \in {MulValues(x, y) : x \in {a}, y \in {b}} : TRUE

\* a / b for b # 0; the callers model Python's ZeroDivisionError for b = 0.
RDiv(a, b) == CHOOSE r \in {RMul(a, FracValues(y[2], y[1])) : y \in {b}} : TRUE

RLt(a, b) == RSub(a, b)[1] < 0
RLe(a, b) == RSub(a, b)[1] <= 0
RGt(a, b) == RLt(b, a)
RGe(a, b) == RLe(b, a)
RMax(a, b) == CHOOSE r \in {IF RGe(x, y) THEN x ELSE y : x \in {a}, y \in {b}} : TRUE

\* a ** n for an integer n >= 0 (Python: x ** 0 = 1, also for x = 0).
RECURSIVE RPow(_, _)
RPow(a, n) == IF n = 0 THEN One ELSE RMul(a, RPow(a, n - 1))

\* sum(list)
RECURSIVE RSumTo(_, _)
RSumTo(s, k) == IF k = 0 THEN Zero ELSE RAdd(RSumTo(s, k - 1), s[k])

RSum(s) == CHOOSE r \in {RSumTo(v, Len(v)) : v \in {s}} : TRUE

\* pd.Series(list).cumsum(): the running totals, in order.
CumSum(s) ==
    CHOOSE r \in {[k \in 1 .. Len(v) |-> RSumTo(v, k)] : v \in {s}} : TRUE

\* Python's round(x): the nearest integer, a tie going to the even one.
Round(a) ==
    LET fl == a[1] \div a[2]
        rem2 == 2 * (a[1] - fl * a[2])
    IN  IF rem2 < a[2] THEN fl
        ELSE IF rem2 > a[2] THEN fl + 1
        ELSE IF fl % 2 = 0 THEN fl ELSE fl + 1

----------------------------------------------------------------------------
(* Sidebar inputs, lines 10-53 *)

\* Bounds of the model: the longest project life and loan tenure explored.
MaxLife == 10
MaxTenure == 11

\* Program constants.
MinProjectLife == 10
SliderMaxLife == 35
HoursPerYear == 8760
KwPerMw == 1000
Percent == 100
PerformanceRatio == Frac(85, 100)
DefaultDcOverload == Frac(12, 10)

\* What the widgets return.  A percentage widget returns the percentage; the
\* script divides it by 100.
Widgets ==
    [ plant_capacity_mw : {R(1)},
      override_dc : BOOLEAN,
      dc_input : {Frac(12, 5)},
      solar_irradiation : {R(1)},
      use_manual_cuf : BOOLEAN,
      cuf_input : {Zero},
      project_life : {n \in MinProjectLife .. SliderMaxLife : n <= MaxLife},
      degradation_input : {R(0), R(50), R(100)},
      capital_cost_per_mw : {R(10)},
      tariff : {Frac(1, 510)},
      om_cost_per_mw : {R(1)},
      om_escalation_input : {R(0), R(100)},
      override_vgf : BOOLEAN,
      subsidy_input : {R(2), R(12), R(24)},
      loan_percent : {0, 50, 100},
      loan_interest_input : {R(0), R(100)},
      loan_tenure : {0, 2, MaxTenure},
      depreciation_input : {R(10)},
      tax_input : {R(0), R(50)},
      roe_input : {R(0), R(100)} ]

DcOverloadFactor(w) == IF w.override_dc THEN w.dc_input ELSE DefaultDcOverload

EstimatedCuf(w) ==
    RDiv(RMul(w.solar_irradiation, PerformanceRatio), R(HoursPerYear))

Cuf(w) ==
    IF w.use_manual_cuf THEN RDiv(w.cuf_input, R(Percent)) ELSE EstimatedCuf(w)

SubsidyAmountPerMw(w) == IF w.override_vgf THEN w.subsidy_input ELSE Zero

\* The script's variables after the sidebar section.
SidebarInputs(w) ==
    [ plant_capacity_mw |-> w.plant_capacity_mw,
      dc_overload_factor |-> DcOverloadFactor(w),
      cuf |-> Cuf(w),
      project_life |-> w.project_life,
      degradation |-> RDiv(w.degradation_input, R(Percent)),
      capital_cost_per_mw |-> w.capital_cost_per_mw,
      tariff |-> w.tariff,
      om_cost_per_mw |-> w.om_cost_per_mw,
      om_escalation |-> RDiv(w.om_escalation_input, R(Percent)),
      subsidy_amount_per_mw |-> SubsidyAmountPerMw(w),
      loan_percent |-> w.loan_percent,
      loan_interest_rate |-> RDiv(w.loan_interest_input, R(Percent)),
      loan_tenure |-> w.loan_tenure,
      depreciation_rate |-> RDiv(w.depreciation_input, R(Percent)),
      tax_rate |-> RDiv(w.tax_input, R(Percent)),
      return_on_equity |-> RDiv(w.roe_input, R(Percent)) ]

\* The scenarios explored.  The exact rationals of a run must fit TLC's 32-bit
\* integers, so a scenario varies either the energy side (degradation, O&M
\* escalation) or the loan side (a tenure beyond the project life), not both,
\* and a WACC of 25% or 75% (whose discount factors are powers of 5/4 and 7/4)
\* is left out.
Representable(i) ==
    /\ i.loan_tenure > 2 => i.degradation = Zero /\ i.om_escalation = Zero
    /\ i.om_escalation # Zero => i.degradation = Zero /\ i.tax_rate = Zero
    /\ ~ /\ i.loan_percent = 50
         /\ i.loan_interest_rate # Zero
         /\ i.tax_rate # Zero

Scenarios == {i \in {SidebarInputs(w) : w \in Widgets} : Representable(i)}

----------------------------------------------------------------------------
(* State *)

VARIABLES
    inputs,                     \* the sidebar values, fixed for the run
    pc,                         \* "calc", "loop", "metrics", "summary", "table", "done", "fault"
    fault,                      \* the unhandled exception that ended the run, or "none"
    base_capital_cost, capital_cost, subsidy_amount, effective_capital_cost,
    loan_amount, equity_amount, wacc, energy_y1_kwh, om_cost_year1,
    annual_payment,
    year,                       \* the loop variable of line 96
    project_cf_list, equity_cf_list, energy_outputs, om_costs, profits,
    ebitdas, remaining_loan, principal_repayments, interest_payments,
    discounted_project_cf, discounted_equity_cf, cum_discounted_project_cf,
    cum_discounted_equity_cf, npv_project_discounted, total_energy, lcoe,
    payback_years, feasible,
    summary_data,
    loan_balances, df

calcVars ==
    <<base_capital_cost, capital_cost, subsidy_amount, effective_capital_cost,
      loan_amount, equity_amount, wacc, energy_y1_kwh, om_cost_year1,
      annual_payment>>

loopVars ==
    <<year, project_cf_list, equity_cf_list, energy_outputs, om_costs, profits,
      ebitdas, remaining_loan, principal_repayments, interest_payments>>

metricVars ==
    <<discounted_project_cf, discounted_equity_cf, cum_discounted_project_cf,
      cum_discounted_equity_cf, npv_project_discounted, total_energy, lcoe,
      payback_years, feasible>>

tableVars == <<loan_balances, df>>

vars == <<inputs, pc, fault, calcVars, loopVars, metricVars, summary_data, tableVars>>

\* payback_years = None
NoIndex == -1

NoSummary ==
    [ wacc |-> None, npv |-> 0, lcoe |-> None, payback |-> NoIndex, feasible |-> "" ]

Init ==
    /\ inputs \in Scenarios
    /\ pc = "calc"
    /\ fault = "none"
    /\ base_capital_cost = None /\ capital_cost = None /\ subsidy_amount = None
    /\ effective_capital_cost = None /\ loan_amount = None
    /\ equity_amount = None /\ wacc = None /\ energy_y1_kwh = None
    /\ om_cost_year1 = None /\ annual_payment = None
    /\ year = 0
    /\ project_cf_list = <<>> /\ equity_cf_list = <<>>
    /\ energy_outputs = <<>> /\ om_costs = <<>> /\ profits = <<>>
    /\ ebitdas = <<>> /\ remaining_loan = None
    /\ principal_repayments = <<>> /\ interest_payments = <<>>
    /\ discounted_project_cf = <<>> /\ discounted_equity_cf = <<>>
    /\ cum_discounted_project_cf = <<>> /\ cum_discounted_equity_cf = <<>>
    /\ npv_project_discounted = None /\ total_energy = None /\ lcoe = None
    /\ payback_years = NoIndex /\ feasible = ""
    /\ summary_data = NoSummary
    /\ loan_balances = <<>> /\ df = <<>>

----------------------------------------------------------------------------
(* Capital structure, WACC, year-1 baseline and annuity, lines 55-93 *)

BaseCapitalCost(i) == RMul(i.capital_cost_per_mw, i.plant_capacity_mw)
CapitalCost(i) == RMul(BaseCapitalCost(i), i.dc_overload_factor)
SubsidyAmount(i) == RMul(i.subsidy_amount_per_mw, i.plant_capacity_mw)
EffectiveCapitalCost(i) == RSub(CapitalCost(i), SubsidyAmount(i))

LoanAmount(ecc, loan_percent) == RMul(ecc, RDiv(R(loan_percent), R(Percent)))
EquityAmount(ecc, loan) == RSub(ecc, loan)

\* Lines 73-74, for ecc # 0.
Wacc(loan, equity, ecc, cost_of_debt, tax_rate, cost_of_equity) ==
    RAdd(RMul(RMul(RDiv(loan, ecc), cost_of_debt), RSub(One, tax_rate)),
         RMul(RDiv(equity, ecc), cost_of_equity))

EnergyY1Kwh(i) ==
    RMul(RMul(RMul(RMul(i.plant_capacity_mw, R(KwPerMw)), R(HoursPerYear)),
              i.cuf), i.dc_overload_factor)

OmCostYear1(i) == RMul(i.om_cost_per_mw, i.plant_capacity_mw)

\* A payment that covers the interest only (the "- 1" of line 82 lost).
AnnuityFactorInterestOnly(r, n) ==
    RDiv(RMul(r, RPow(RAdd(One, r), n)), RPow(RAdd(One, r), n))

AnnuityFactor(r, n) ==
    RDiv(RMul(r, RPow(RAdd(One, r), n)), RSub(RPow(RAdd(One, r), n), One))

\* A zero-rate loan repaid in equal instalments instead of not at all.
AnnualPaymentStraightLine(loan, r, n) ==
    IF n > 0
    THEN IF RGt(r, Zero) THEN RMul(loan, AnnuityFactor(r, n)) ELSE RDiv(loan, R(n))
    ELSE Zero

AnnualPayment(loan, r, n) ==
    IF n > 0 /\ RGt(r, Zero) THEN RMul(loan, AnnuityFactor(r, n)) ELSE Zero

\* Lines 57-93.  Line 73 divides by effective_capital_cost: a float division by
\* zero raises ZeroDivisionError, which nothing catches.
Calculations ==
    /\ pc = "calc"
    /\ LET ecc == EffectiveCapitalCost(inputs)
           loan == LoanAmount(ecc, inputs.loan_percent)
           equity == EquityAmount(ecc, loan)
       IN  /\ base_capital_cost' = BaseCapitalCost(inputs)
           /\ capital_cost' = CapitalCost(inputs)
           /\ subsidy_amount' = SubsidyAmount(inputs)
           /\ effective_capital_cost' = ecc
           /\ loan_amount' = loan
           /\ equity_amount' = equity
           /\ IF ecc = Zero
              THEN /\ pc' = "fault"
                   /\ fault' = "ZeroDivisionError"
                   /\ UNCHANGED <<wacc, energy_y1_kwh, om_cost_year1,
                                  annual_payment, loopVars>>
              ELSE /\ pc' = "loop"
                   /\ fault' = fault
                   /\ wacc' = Wacc(loan, equity, ecc, inputs.loan_interest_rate,
                                   inputs.tax_rate, inputs.return_on_equity)
                   /\ energy_y1_kwh' = EnergyY1Kwh(inputs)
                   /\ om_cost_year1' = OmCostYear1(inputs)
                   /\ annual_payment' = AnnualPayment(loan, inputs.loan_interest_rate,
                                                      inputs.loan_tenure)
                   /\ project_cf_list' = <<RNeg(ecc)>>
                   /\ equity_cf_list' = <<RNeg(equity)>>
                   /\ remaining_loan' = loan
                   /\ year' = 1
                   /\ UNCHANGED <<energy_outputs, om_costs, profits, ebitdas,
                                  principal_repayments, interest_payments>>
    /\ UNCHANGED <<inputs, metricVars, summary_data, tableVars>>

----------------------------------------------------------------------------
(* The per-year loop, lines 96-124 *)

\* Degradation applied with the wrong sign.
EnergyYearGrowing(e1, degradation, y) == RMul(e1, RPow(RAdd(One, degradation), y - 1))

EnergyYear(e1, degradation, y) == RMul(e1, RPow(RSub(One, degradation), y - 1))
OmCostYear(om1, om_escalation, y) == RMul(om1, RPow(RAdd(One, om_escalation), y - 1))
Tax(tax_rate, ebit) == RMul(tax_rate, RMax(ebit, Zero))

\* The tenure test of line 106 lost.
AmortizingAnyYear(y, loan_tenure, remaining) == RGt(remaining, Zero)

\* Line 106.
Amortizing(y, loan_tenure, remaining) == y <= loan_tenure /\ RGt(remaining, Zero)

\* Insertion at the front instead of the end.
AppendYearFront(list, x) == <<x>> \o list

\* list.append
AppendYear(list, x) == Append(list, x)

\* One iteration of the loop body; the last one leaves the loop.  project_life
\* is at least MinProjectLife, so the body runs at least once.
YearStep ==
    /\ pc = "loop"
    /\ LET energy == EnergyYear(energy_y1_kwh, inputs.degradation, year)
           om_cost == OmCostYear(om_cost_year1, inputs.om_escalation, year)
           revenue == RMul(energy, inputs.tariff)
           depreciation == RMul(effective_capital_cost, inputs.depreciation_rate)
           ebitda == RSub(revenue, om_cost)
           ebit == RSub(ebitda, depreciation)
           tax == Tax(inputs.tax_rate, ebit)
           project_cf == RSub(ebitda, tax)
           amortizing == Amortizing(year, inputs.loan_tenure, remaining_loan)
           interest == IF amortizing
                       THEN RMul(remaining_loan, inputs.loan_interest_rate)
                       ELSE Zero
           principal == IF amortizing THEN RSub(annual_payment, interest) ELSE Zero
           equity_cf == RSub(RSub(project_cf, interest), principal)
       IN  /\ remaining_loan' = IF amortizing
                                THEN RSub(remaining_loan, principal)
                                ELSE remaining_loan
           /\ interest_payments' = AppendYear(interest_payments, interest)
           /\ principal_repayments' = AppendYear(principal_repayments, principal)
           /\ project_cf_list' = AppendYear(project_cf_list, project_cf)
           /\ equity_cf_list' = AppendYear(equity_cf_list, equity_cf)
           /\ energy_outputs' = AppendYear(energy_outputs, energy)
           /\ om_costs' = AppendYear(om_costs, om_cost)
           /\ profits' = AppendYear(profits, ebit)
           /\ ebitdas' = AppendYear(ebitdas, ebitda)
    /\ year' = IF year < inputs.project_life THEN year + 1 ELSE year
    /\ pc' = IF year < inputs.project_life THEN "loop" ELSE "metrics"
    /\ UNCHANGED <<inputs, fault, calcVars, metricVars, summary_data, tableVars>>

----------------------------------------------------------------------------
(* Discounting and metrics, lines 126-146 *)

\* [cf / ((1 + rate) ** i) for i, cf in enumerate(list)], for rate # -1.
Discounted(list, rate) ==
    [k \in 1 .. Len(list) |-> RDiv(list[k], RPow(RAdd(One, rate), k - 1))]

\* Lines 139-141.
Lcoe(cf_list, energy_total) ==
    IF RGt(energy_total, Zero)
    THEN RDiv(RSum(Tail(cf_list)), energy_total)
    ELSE None

\* "> 0" for ">= 0".
NonNegativeStrict(x) == RGt(x, Zero)

NonNegative(x) == RGe(x, Zero)

\* next((i for i, x in enumerate(cum_cf) if x >= 0), None), 0-based.
PaybackYears(cum_cf) ==
    LET hits == {k \in 1 .. Len(cum_cf) : NonNegative(cum_cf[k])}
    IN  IF hits = {} THEN NoIndex
        ELSE (CHOOSE k \in hits : \A j \in hits : k <= j) - 1

\* ">= 0" for "> 0".
FeasibleAtZero(npv) == IF RGe(npv, Zero) THEN "Yes" ELSE "No"

Feasible(npv) == IF RGt(npv, Zero) THEN "Yes" ELSE "No"

\* Lines 127-146.  A discount factor (1 + rate) ** i is zero only for a rate of
\* -100%, and then the division raises ZeroDivisionError.  npf.irr is a library
\* root finder that returns nan when it finds no rate; its two results are only
\* formatted and are not modelled.
Metrics ==
    /\ pc = "metrics"
    /\ IF RAdd(One, wacc) = Zero \/ RAdd(One, inputs.return_on_equity) = Zero
       THEN /\ pc' = "fault"
            /\ fault' = "ZeroDivisionError"
            /\ UNCHANGED metricVars
       ELSE LET dp == Discounted(project_cf_list, wacc)
                de == Discounted(equity_cf_list, inputs.return_on_equity)
                te == RSum(energy_outputs)
            IN  /\ discounted_project_cf' = dp
                /\ discounted_equity_cf' = de
                /\ cum_discounted_project_cf' = CumSum(discounted_project_cf')
                /\ cum_discounted_equity_cf' = CumSum(discounted_equity_cf')
                /\ npv_project_discounted' = RSum(discounted_project_cf')
                /\ total_energy' = te
                /\ lcoe' = Lcoe(project_cf_list, total_energy')
                /\ payback_years' = PaybackYears(CumSum(equity_cf_list))
                /\ feasible' = Feasible(npv_project_discounted')
                /\ pc' = "summary"
                /\ fault' = fault
    /\ UNCHANGED <<inputs, calcVars, loopVars, summary_data, tableVars>>

----------------------------------------------------------------------------
(* Project summary, lines 148-180 *)

\* f"{x:,.0f}": the nearest integer, ties to even.
FormatWhole(x) == Round(x)

\* Line 165 formats lcoe with ":.2f"; None has no such format and the f-string
\* raises TypeError.  nan and None format without error elsewhere in the dict.
Summary ==
    /\ pc = "summary"
    /\ IF lcoe = None
       THEN /\ pc' = "fault"
            /\ fault' = "TypeError"
            /\ UNCHANGED summary_data
       ELSE /\ summary_data' = [ wacc |-> wacc,
                                 npv |-> FormatWhole(npv_project_discounted),
                                 lcoe |-> lcoe,
                                 payback |-> payback_years,
                                 feasible |-> feasible ]
            /\ pc' = "table"
            /\ fault' = fault
    /\ UNCHANGED <<inputs, calcVars, loopVars, metricVars, tableVars>>

----------------------------------------------------------------------------
(* Cash flow table and CSV, lines 182-232 *)

\* Lines 185-189.
\* current_balance after the first k principal repayments.
RECURSIVE CurrentBalance(_, _, _)
CurrentBalance(loan, principals, k) ==
    IF k = 0 THEN loan
    ELSE CHOOSE b \in {RMax(RSub(prev, principals[k]), Zero) :
                          prev \in {CurrentBalance(loan, principals, k - 1)}} : TRUE

\* The year-0 balance left out.
LoanBalancesNoYear0(loan, principals) ==
    [k \in 1 .. Len(principals) |-> CurrentBalance(loan, principals, k)]

LoanBalances(loan, principals) ==
    [k \in 1 .. Len(principals) + 1 |-> CurrentBalance(loan, principals, k - 1)]

RoundAll(list) == [k \in 1 .. Len(list) |-> Round(list[k])]

\* The columns of the DataFrame, lines 191-207, in order.
Columns(balances) ==
    <<[k \in 1 .. inputs.project_life + 1 |-> k - 1],
      <<0>> \o RoundAll(energy_outputs),
      <<0>> \o RoundAll(om_costs),
      <<0>> \o RoundAll(ebitdas),
      <<0>> \o RoundAll(profits),
      <<0>> \o [k \in 1 .. Len(profits) |-> Round(Tax(inputs.tax_rate, profits[k]))],
      project_cf_list,
      <<0>> \o RoundAll(interest_payments),
      <<0>> \o RoundAll(principal_repayments),
      RoundAll(balances),
      equity_cf_list,
      discounted_project_cf,
      discounted_equity_cf,
      cum_discounted_project_cf,
      cum_discounted_equity_cf>>

\* pd.DataFrame raises ValueError when the columns differ in length.
SameLength(cols) == \A a, b \in 1 .. Len(cols) : Len(cols[a]) = Len(cols[b])

Table ==
    /\ pc = "table"
    /\ LET balances == LoanBalances(loan_amount, principal_repayments)
           cols == Columns(balances)
       IN  /\ loan_balances' = balances
           /\ IF SameLength(cols)
              THEN /\ df' = cols
                   /\ pc' = "done"
                   /\ fault' = fault
              ELSE /\ df' = df
                   /\ pc' = "fault"
                   /\ fault' = "ValueError"
    /\ UNCHANGED <<inputs, calcVars, loopVars, metricVars, summary_data>>

----------------------------------------------------------------------------

Next == Calculations \/ YearStep \/ Metrics \/ Summary \/ Table

Spec == Init /\ [][Next]_vars

----------------------------------------------------------------------------
(* Properties *)

\* Line 73 has run: the capital structure and the year-0 entries exist.
CalcDone == wacc # None
\* The loop of line 96 has finished.
LoopDone == pc \in {"metrics", "summary", "table", "done"} \/ fault \in {"TypeError", "ValueError"}
\* Lines 127-146 have run.
MetricsDone == feasible # ""

Life == inputs.project_life
Tenure == inputs.loan_tenure
Rate == inputs.loan_interest_rate
Min(a, b) == IF a <= b THEN a ELSE b

\* C1: when total energy over years 1..project_life is 0, the run reports LCOE
\* as undefined and ends without an unhandled error.
C1_ZeroEnergyRunCompletes ==
    (MetricsDone /\ total_energy = Zero) => (lcoe = None /\ fault = "none")

\* C2: when effective_capital_cost is zero or negative the run raises no
\* unhandled arithmetic fault and still computes the per-year records.
C2_NonPositiveCapitalNoFault ==
    (pc # "calc" /\ RLe(effective_capital_cost, Zero)) =>
        (fault # "ZeroDivisionError" /\ (LoopDone => Len(project_cf_list) = Life + 1))

PositiveAmortization ==
    CalcDone /\ RGt(loan_amount, Zero) /\ Tenure > 0 /\ RGt(Rate, Zero)

BalanceNonIncreasing ==
    \A k \in 1 .. Len(loan_balances) - 1 : RLe(loan_balances[k + 1], loan_balances[k])

\* No interest and no principal in any year after a year whose balance is 0.
NoServiceAfterZero ==
    \A k \in 1 .. Len(loan_balances) :
        loan_balances[k] = Zero =>
            \A y \in k .. Life : interest_payments[y] = Zero /\ principal_repayments[y] = Zero

\* C3 as stated: with positive amortization the loan balance over years
\* 0..project_life is non-increasing, is exactly 0 at or before year
\* loan_tenure, and no interest or principal is paid after it has reached 0.
C3_BalanceReachesZero ==
    (pc = "done" /\ PositiveAmortization) =>
        /\ BalanceNonIncreasing
        /\ \E k \in 0 .. Min(Tenure, Life) : loan_balances[k + 1] = Zero
        /\ NoServiceAfterZero

\* C3 amended: with positive amortization the loan balance is non-increasing
\* and no interest or principal is paid after it has reached 0; when
\* loan_tenure <= project_life it is exactly 0 at year loan_tenure (also in the
\* rounded Loan Balance column) and positive in every year before; when
\* loan_tenure > project_life it is still positive in year project_life.
C3_BalanceReachesZeroWithinLife ==
    (pc = "done" /\ PositiveAmortization) =>
        /\ BalanceNonIncreasing
        /\ NoServiceAfterZero
        /\ Tenure <= Life =>
              /\ loan_balances[Tenure + 1] = Zero
              /\ df[10][Tenure + 1] = 0
              /\ \A k \in 0 .. Tenure - 1 : RGt(loan_balances[k + 1], Zero)
        /\ Tenure > Life => \A k \in 0 .. Life : RGt(loan_balances[k + 1], Zero)

C3_Witness ==
    /\ pc = "done" /\ PositiveAmortization
    /\ Tenure = 2
    /\ RGt(loan_balances[2], Zero)
    /\ loan_balances[3] = Zero
    /\ RGt(principal_repayments[2], principal_repayments[1])

StrictlyDecreasing(list) ==
    \A y \in 1 .. Len(list) - 1 : RLt(list[y + 1], list[y])

AllEqual(list) == \A y \in 1 .. Len(list) - 1 : list[y + 1] = list[y]

\* C4 as stated: energy output is strictly decreasing from each year to the
\* next whenever degradation > 0, and equal in every year when degradation = 0.
C4_EnergyDecreasing ==
    LoopDone =>
        /\ RGt(inputs.degradation, Zero) => StrictlyDecreasing(energy_outputs)
        /\ inputs.degradation = Zero => AllEqual(energy_outputs)

\* C4 amended: energy output is strictly decreasing from each year to the next
\* whenever 0 < degradation < 1 and the year-1 energy is positive, and equal in
\* every year when degradation = 0 or the year-1 energy is 0.
C4_EnergyDecreasingWhenPositive ==
    LoopDone =>
        /\ (/\ RGt(inputs.degradation, Zero)
            /\ RLt(inputs.degradation, One)
            /\ RGt(energy_y1_kwh, Zero)) => StrictlyDecreasing(energy_outputs)
        /\ (inputs.degradation = Zero \/ energy_y1_kwh = Zero) => AllEqual(energy_outputs)

C4_Witness ==
    /\ pc = "done"
    /\ RGt(inputs.degradation, Zero) /\ RLt(inputs.degradation, One)
    /\ RGt(energy_outputs[Life], Zero)
    /\ RLt(energy_outputs[Life], energy_outputs[1])

PerYearLists ==
    <<energy_outputs, om_costs, profits, ebitdas, principal_repayments, interest_payments>>

\* C5: the projection holds project_life + 1 year records, years
\* 0..project_life in order, and every column of the table has that length
\* (so building the table never fails on unequal columns).
C5_RecordCount ==
    /\ LoopDone =>
          /\ Len(project_cf_list) = Life + 1
          /\ Len(equity_cf_list) = Life + 1
          /\ \A c \in 1 .. Len(PerYearLists) : Len(PerYearLists[c]) = Life
    /\ MetricsDone =>
          /\ Len(discounted_project_cf) = Life + 1
          /\ Len(discounted_equity_cf) = Life + 1
          /\ Len(cum_discounted_project_cf) = Life + 1
          /\ Len(cum_discounted_equity_cf) = Life + 1
    /\ fault # "ValueError"
    /\ pc = "done" =>
          /\ Len(loan_balances) = Life + 1
          /\ Len(df) = 15
          /\ \A c \in 1 .. Len(df) : Len(df[c]) = Life + 1
          /\ \A k \in 1 .. Life + 1 : df[1][k] = k - 1

C5_Witness ==
    /\ pc = "done"
    /\ Len(df[10]) = Life + 1
    /\ Len(df[2]) = Life + 1
    /\ df[1][Life + 1] = Life

\* C6: the year-0 project cash flow is -effective_capital_cost and the year-0
\* equity cash flow is -equity_amount, with equity_amount =
\* effective_capital_cost - effective_capital_cost * loan_percent / 100, in
\* every state from line 89 on (the loop never changes them).
C6_YearZeroOutlay ==
    CalcDone =>
        /\ project_cf_list[1] = RNeg(effective_capital_cost)
        /\ equity_cf_list[1] = RNeg(equity_amount)
        /\ equity_amount =
              RSub(effective_capital_cost,
                   RDiv(RMul(effective_capital_cost, R(inputs.loan_percent)), R(Percent)))

C6_Witness ==
    /\ pc = "done"
    /\ inputs.loan_percent = 50
    /\ project_cf_list[1] = R(-10)
    /\ equity_cf_list[1] = R(-5)
    /\ project_cf_list[2] # project_cf_list[1]

\* C7: when loan_tenure = 0, interest and principal are 0 in every year and
\* equity_cf[year] = project_cf[year] for every year 1..project_life.
C7_ZeroTenureNoDebtService ==
    (CalcDone /\ Tenure = 0) =>
        \A y \in 1 .. Len(interest_payments) :
            /\ interest_payments[y] = Zero
            /\ principal_repayments[y] = Zero
            /\ equity_cf_list[y + 1] = project_cf_list[y + 1]

C7_Witness ==
    /\ pc = "done" /\ Tenure = 0
    /\ RGt(loan_amount, Zero) /\ RGt(Rate, Zero)
    /\ Len(interest_payments) = Life
    /\ equity_cf_list[Life + 1] = project_cf_list[Life + 1]

\* The sum over years 0..project_life of project_cf[i] / (1 + WACC)^i.
NpvOfProjectCashFlows ==
    RSum([k \in 1 .. Life + 1 |->
             RDiv(project_cf_list[k], RPow(RAdd(One, wacc), k - 1))])

\* C8: the feasibility flag is "Yes" exactly when NPV > 0, NPV being the sum
\* of the discounted project cash flows of years 0..project_life.
C8_FeasibleIffPositiveNpv ==
    MetricsDone =>
        /\ npv_project_discounted = NpvOfProjectCashFlows
        /\ feasible \in {"Yes", "No"}
        /\ feasible = "Yes" <=> RGt(NpvOfProjectCashFlows, Zero)

C8_Witness ==
    /\ pc = "done"
    /\ npv_project_discounted = Zero
    /\ feasible = "No"

\* The cumulative undiscounted equity cash flow of years 0..i.
CumEquity(i) == RSum(SubSeq(equity_cf_list, 1, i + 1))

\* C9: payback_years is the smallest 0-based index at which the cumulative
\* undiscounted equity cash flow is >= 0, and None exactly when there is none.
C9_PaybackIsFirstNonNegative ==
    MetricsDone =>
        /\ payback_years = NoIndex <=> \A i \in 0 .. Life : RLt(CumEquity(i), Zero)
        /\ payback_years # NoIndex =>
              /\ payback_years \in 0 .. Life
              /\ RGe(CumEquity(payback_years), Zero)
              /\ \A j \in 0 .. payback_years - 1 : RLt(CumEquity(j), Zero)

C9_Witness ==
    /\ pc = "done"
    /\ payback_years \in 1 .. Life - 1
    /\ CumEquity(payback_years) = Zero

\* C10: when loan_interest_rate = 0 with loan_amount > 0 and loan_tenure > 0,
\* the annual payment is 0, interest and principal are 0 in every year, the
\* loan balance stays at loan_amount, and equity_cf[year] = project_cf[year].
C10_ZeroRateLoanNeverRepaid ==
    (CalcDone /\ Rate = Zero /\ RGt(loan_amount, Zero) /\ Tenure > 0) =>
        /\ annual_payment = Zero
        /\ remaining_loan = loan_amount
        /\ \A y \in 1 .. Len(interest_payments) :
              /\ interest_payments[y] = Zero
              /\ principal_repayments[y] = Zero
              /\ equity_cf_list[y + 1] = project_cf_list[y + 1]
        /\ \A k \in 1 .. Len(loan_balances) : loan_balances[k] = loan_amount

C10_Witness ==
    /\ pc = "done"
    /\ Rate = Zero /\ RGt(loan_amount, Zero) /\ Tenure = 2
    /\ loan_balances[Life + 1] = loan_amount
    /\ df[10][Life + 1] > 0

====
